---- MODULE Spec2Model ----
(***************************************************************************)
(* Model of the agent-guidance command line tool: the guide resolver of    *)
(* lib/utils.js (getAvailableGuides, findGuide) and the two commands       *)
(* lib/commands/add.js (add) and lib/commands/init.js (init), over a small *)
(* file system made of the package directory (which holds the bundle       *)
(* .agent/<lang>/*.md) and the output directory .agent_guidance.           *)
(*                                                                         *)
(* File names, queries and language codes are strings; startsWith,         *)
(* endsWith, path.join and String.replace are computed on their            *)
(* characters.                                                             *)
(***************************************************************************)
EXTENDS Integers, Sequences, FiniteSets, TLC

VARIABLES
    bundle,   \* the directory node at AGENT_DIR (never written by the tool)
    target,   \* the node at TARGET_DIR: absent, or a directory whose entries
              \* are a function of their names (it is never listed)
    last,     \* the last invocation of a command and how it ended
    running   \* the invocations of add that run side by side, each with the
              \* await it has reached (none where commands run one at a time)

vars == <<bundle, target, last, running>>

----------------------------------------------------------------------------
(* File-system nodes.  A directory lists its entries in readdir order.     *)

Absent == [kind |-> "absent", content |-> "", entries |-> <<>>]

File(c) == [kind |-> "file", content |-> c, entries |-> <<>>]

Dir(es) == [kind |-> "dir", content |-> "", entries |-> es]

Entry(n, node) == [name |-> n, node |-> node]

\* the names of a directory's entries, in listing order
Names(node) == [i \in 1..Len(node.entries) |-> node.entries[i].name]

\* the child of a directory under a name, Absent when there is none
Child(node, n) ==
    IF node.kind = "dir" /\ \E i \in 1..Len(node.entries) : node.entries[i].name = n
    THEN node.entries[CHOOSE i \in 1..Len(node.entries) : node.entries[i].name = n].node
    ELSE Absent

----------------------------------------------------------------------------
(* Strings.                                                                *)

\* the position of the first occurrence of s in f, 0 when there is none
indexOf(f, s) ==
    LET hits == {i \in 1..(Len(f) - Len(s) + 1) : SubSeq(f, i, i + Len(s) - 1) = s}
    IN  IF hits = {} THEN 0 ELSE CHOOSE i \in hits : \A j \in hits : i <= j

\* a slip: String.prototype.includes in the place of startsWith
startsWith_includes(g, q) == indexOf(g, q) # 0

\* a slip: String.prototype.endsWith in the place of startsWith
startsWith_endsWith(g, q) ==
    Len(q) <= Len(g) /\ SubSeq(g, Len(g) - Len(q) + 1, Len(g)) = q

\* a slip: the query has to be shorter than the name it starts
startsWith_shorter(g, q) == Len(q) < Len(g) /\ SubSeq(g, 1, Len(q)) = q

\* String.prototype.startsWith
startsWith(g, q) == Len(q) <= Len(g) /\ SubSeq(g, 1, Len(q)) = q

\* String.prototype.endsWith
endsWith(f, s) == Len(s) <= Len(f) /\ SubSeq(f, Len(f) - Len(s) + 1, Len(f)) = s

\* the path segments of a string, split at "/"
RECURSIVE Split(_)
Split(s) ==
    LET i == indexOf(s, "/")
    IN  IF i = 0 THEN <<s>>
        ELSE <<SubSeq(s, 1, i - 1)>> \o Split(SubSeq(s, i + 1, Len(s)))

\* path normalisation of an absolute path: "" and "." are dropped, ".."
\* removes the segment before it
RECURSIVE Normalize(_, _)
Normalize(done, segs) ==
    IF segs = <<>> THEN done
    ELSE LET s == Head(segs)
         IN  IF s = "" \/ s = "." THEN Normalize(done, Tail(segs))
             ELSE IF s = ".."
                  THEN Normalize(IF done = <<>> THEN <<>>
                                 ELSE SubSeq(done, 1, Len(done) - 1), Tail(segs))
                  ELSE Normalize(Append(done, s), Tail(segs))

\* path.join(base, s) for an absolute, normalised base; a trailing "/" of s
\* is kept, as a last empty segment
join(base, s) ==
    LET p == Normalize(base, Split(s))
    IN  IF endsWith(s, "/") /\ p # <<>> THEN Append(p, "") ELSE p

\* the node a path names below a root node; a path through a file, or to a
\* file with a trailing "/", names nothing (ENOTDIR)
RECURSIVE Lookup(_, _)
Lookup(node, p) ==
    IF p = <<>> THEN node
    ELSE IF node.kind # "dir" THEN Absent
         ELSE IF Head(p) = "" THEN Lookup(node, Tail(p))
              ELSE Lookup(Child(node, Head(p)), Tail(p))

----------------------------------------------------------------------------
(* The package directory and the guide resolver (lib/utils.js).            *)

\* the installed package: the bundle at .agent, beside the files shipped
\* with it
PackageDir ==
    Dir(<<Entry(".agent", bundle),
          Entry("lib", Dir(<<Entry("utils.js", File("utils"))>>)),
          Entry("package.json", File("package")),
          Entry("PUBLISHING.md", File("publishing"))>>)

\* __dirname of lib/utils.js, as a path below the package directory
dirname == <<"lib">>

AGENT_DIR == join(dirname, "../.agent")

\* a slip: the listing is returned without the filter on ".md"
listGuides_unfiltered(langDir, fault) ==
    IF langDir.kind = "absent" THEN [error |-> FALSE, files |-> <<>>]
    ELSE IF langDir.kind # "dir" \/ fault = "readdir" THEN [error |-> TRUE, files |-> <<>>]
    ELSE [error |-> FALSE, files |-> Names(langDir)]

\* the body of getAvailableGuides on the node at langDir: nothing when
\* fs.pathExists is false; fs.readdir throws on a node that is not a
\* directory and when the environment fails it (fault = "readdir"); the
\* names that end with ".md" otherwise
listGuides(langDir, fault) ==
    IF langDir.kind = "absent" THEN [error |-> FALSE, files |-> <<>>]
    ELSE IF langDir.kind # "dir" \/ fault = "readdir" THEN [error |-> TRUE, files |-> <<>>]
    ELSE [error |-> FALSE,
          files |-> SelectSeq(Names(langDir), LAMBDA f : endsWith(f, ".md"))]

getAvailableGuides(lang, fault) ==
    listGuides(Lookup(PackageDir, join(AGENT_DIR, lang)), fault)

\* a slip: the file name is compared with the query for equality
matching_exact(guides, query, lang) ==
    [error   |-> guides.error,
     matches |-> SelectSeq(guides.files, LAMBDA g : g = query),
     lang    |-> lang]

\* guides.filter(g => g.startsWith(query)) on what getAvailableGuides
\* returned, paired with the language listed
matching(guides, query, lang) ==
    [error   |-> guides.error,
     matches |-> SelectSeq(guides.files, LAMBDA g : startsWith(g, query)),
     lang    |-> lang]

\* a slip: the fallback returns the requested language with the matches of
\* "en"
fallback_keepsLang(first, query, fault) ==
    IF ~first.error /\ Len(first.matches) = 0 /\ first.lang # "en"
    THEN matching(getAvailableGuides("en", fault), query, first.lang)
    ELSE first

\* a slip: the empty code is taken for the default language and not
\* looked up again
fallback_notForEmpty(first, query, fault) ==
    IF ~first.error /\ Len(first.matches) = 0 /\ first.lang # "en" /\ first.lang # ""
    THEN matching(getAvailableGuides("en", fault), query, "en")
    ELSE first

\* a slip: the matches of "en" are preferred whenever there are some
fallback_prefersEn(first, query, fault) ==
    IF ~first.error /\ first.lang # "en"
       /\ ~getAvailableGuides("en", fault).error
       /\ Len(matching(getAvailableGuides("en", fault), query, "en").matches) > 0
    THEN matching(getAvailableGuides("en", fault), query, "en")
    ELSE first

\* a slip: a second fallback, to "zh", when "en" has no match either
fallback_thenZh(first, query, fault) ==
    IF ~first.error /\ Len(first.matches) = 0 /\ first.lang # "en"
    THEN IF ~getAvailableGuides("en", fault).error
            /\ Len(matching(getAvailableGuides("en", fault), query, "en").matches) = 0
         THEN matching(getAvailableGuides("zh", fault), query, "zh")
         ELSE matching(getAvailableGuides("en", fault), query, "en")
    ELSE first

\* the fallback of findGuide on the matches of the requested language
fallback(first, query, fault) ==
    IF ~first.error /\ Len(first.matches) = 0 /\ first.lang # "en"
    THEN matching(getAvailableGuides("en", fault), query, "en")
    ELSE first

\* a slip: no fallback, the matches of the requested language are returned
findGuide_noFallback(query, lang, fault) ==
    matching(getAvailableGuides(lang, fault), query, lang)

\* lib/utils.js: findGuide(query, lang)
findGuide(query, lang, fault) ==
    fallback(matching(getAvailableGuides(lang, fault), query, lang), query, fault)

----------------------------------------------------------------------------
(* The output directory and the commands (lib/commands/add.js, init.js).   *)

\* fs.ensureDir(TARGET_DIR) fails when the path is taken by a file, and when
\* the environment fails it (fault = "ensureDir")
ensureDirFails(fault) == target.kind = "file" \/ fault = "ensureDir"

\* a slip: fs.emptyDir in the place of fs.ensureDir
ensureDir_empties == Dir(<<>>)

\* TARGET_DIR after a successful fs.ensureDir
ensureDir == IF target.kind = "dir" THEN target ELSE Dir(<<>>)

\* the node under a name in the output directory, Absent when there is none
TargetChild(d, n) ==
    IF d.kind = "dir" /\ n \in DOMAIN d.entries THEN d.entries[n] ELSE Absent

\* a slip: the directory is emptied before the name is set
WithEntry_emptied(d, n, node) == Dir([m \in {n} |-> node])

\* the output directory with the name n set to a node, created or replaced
WithEntry(d, n, node) ==
    Dir([m \in DOMAIN d.entries \cup {n} |-> IF m = n THEN node ELSE d.entries[m]])

\* how an invocation ended: its arguments, what the resolver returned to it,
\* its exit status, the message it printed and the file names in the message
Outcome(cmd, query, lang, fault, r, guideFile, exit, msg, out) ==
    [cmd |-> cmd, query |-> query, lang |-> lang, fault |-> fault,
     error |-> r.error, files |-> r.files, matches |-> r.matches,
     foundLang |-> r.lang, guideFile |-> guideFile, exit |-> exit, msg |-> msg,
     out |-> out]

NoInvocation ==
    [cmd |-> "none", query |-> "", lang |-> "", fault |-> "none",
     error |-> FALSE, files |-> <<>>, matches |-> <<>>,
     foundLang |-> "", guideFile |-> "", exit |-> 0, msg |-> "none", out |-> <<>>]

\* a slip: the language directory left out of the source path
sourcePath_flat(foundLang, guideFile) == join(AGENT_DIR, guideFile)

\* path.join(AGENT_DIR, foundLang, guideFile)
sourcePath(foundLang, guideFile) == join(join(AGENT_DIR, foundLang), guideFile)

\* a slip: no existence check, the copy always runs
targetPathExists_never(dir, guideFile) == FALSE

\* a slip: the existence of TARGET_DIR is checked, not that of the file
targetPathExists_dir(dir, guideFile) == dir.kind # "absent"

\* a slip: the destination is read, and counts as present when it holds
\* the guide of en
targetPathExists_readsBack(dir, guideFile) ==
    /\ TargetChild(dir, guideFile).kind # "absent"
    /\ TargetChild(dir, guideFile) = Lookup(PackageDir, sourcePath("en", guideFile))

\* fs.pathExists(targetPath), for targetPath = TARGET_DIR/guideFile
targetPathExists(dir, guideFile) == TargetChild(dir, guideFile).kind # "absent"

\* the end of an invocation of add
addEnd(query, options, fault, found, guideFile, exit, msg, out) ==
    last' = Outcome("add", query, options.lang, fault,
                    [error |-> found.error, files |-> <<>>,
                     matches |-> found.matches, lang |-> found.lang],
                    guideFile, exit, msg, out)

\* a slip: the collection directory is copied to TARGET_DIR, not the one
\* guide
copy_collection(query, options, fault, found, dir, source) ==
    IF fault = "copy" \/ source.kind = "absent"
    THEN /\ target' = dir
         /\ addEnd(query, options, fault, found, found.matches[1], 1, "error", <<>>)
    ELSE /\ target' =
                Dir([m \in DOMAIN dir.entries
                           \cup {e.name : e \in {Lookup(PackageDir, join(AGENT_DIR, found.lang)).entries[i] :
                                     i \in 1..Len(Lookup(PackageDir, join(AGENT_DIR, found.lang)).entries)}}
                     |-> IF Child(Lookup(PackageDir, join(AGENT_DIR, found.lang)), m).kind # "absent"
                         THEN Child(Lookup(PackageDir, join(AGENT_DIR, found.lang)), m)
                         ELSE dir.entries[m]])
         /\ addEnd(query, options, fault, found, found.matches[1], 0, "added",
                   <<found.matches[1]>>)

\* a slip: the source is taken from en, whatever language was resolved
copy_fromEn(query, options, fault, found, dir, source) ==
    IF fault = "copy" \/ Lookup(PackageDir, sourcePath("en", found.matches[1])).kind = "absent"
    THEN /\ target' = dir
         /\ addEnd(query, options, fault, found, found.matches[1], 1, "error", <<>>)
    ELSE /\ target' = WithEntry(dir, found.matches[1],
                                Lookup(PackageDir, sourcePath("en", found.matches[1])))
         /\ addEnd(query, options, fault, found, found.matches[1], 0, "added",
                   <<found.matches[1]>>)

\* fs.copy(sourcePath, targetPath) and the end of add after it: the copy
\* throws when the source is missing and when the environment fails it
\* (fault = "copy"), and then leaves no file behind
copy(query, options, fault, found, dir, source) ==
    IF fault = "copy" \/ source.kind = "absent"
    THEN /\ target' = dir
         /\ addEnd(query, options, fault, found, found.matches[1], 1, "error", <<>>)
    ELSE /\ target' = WithEntry(dir, found.matches[1], source)
         /\ addEnd(query, options, fault, found, found.matches[1], 0, "added",
                   <<found.matches[1]>>)

\* a slip: the output directory is ensured before the matches are counted,
\* as init does
addFound_ensuresFirst(query, options, fault, found, dir) ==
    IF ensureDirFails(fault)
    THEN target' = target /\ addEnd(query, options, fault, found, "", 1, "error", <<>>)
    ELSE IF found.error
    THEN target' = dir /\ addEnd(query, options, fault, found, "", 1, "error", <<>>)
    ELSE IF Len(found.matches) = 0
    THEN target' = dir /\ addEnd(query, options, fault, found, "", 1, "not found", <<>>)
    ELSE IF Len(found.matches) > 1
    THEN target' = dir
         /\ addEnd(query, options, fault, found, "", 1, "multiple", found.matches)
    ELSE IF targetPathExists(dir, found.matches[1])
    THEN target' = dir
         /\ addEnd(query, options, fault, found, found.matches[1], 0, "already exists",
                   <<found.matches[1]>>)
    ELSE copy(query, options, fault, found, dir,
              Lookup(PackageDir, sourcePath(found.lang, found.matches[1])))

\* a slip: no check for several matches, the first match is taken
addFound_takesFirst(query, options, fault, found, dir) ==
    IF found.error
    THEN target' = target /\ addEnd(query, options, fault, found, "", 1, "error", <<>>)
    ELSE IF Len(found.matches) = 0
    THEN target' = target /\ addEnd(query, options, fault, found, "", 1, "not found", <<>>)
    ELSE IF ensureDirFails(fault)
    THEN target' = target
         /\ addEnd(query, options, fault, found, found.matches[1], 1, "error", <<>>)
    ELSE IF targetPathExists(dir, found.matches[1])
    THEN target' = dir
         /\ addEnd(query, options, fault, found, found.matches[1], 0, "already exists",
                   <<found.matches[1]>>)
    ELSE copy(query, options, fault, found, dir,
              Lookup(PackageDir, sourcePath(found.lang, found.matches[1])))

\* add after findGuide returned or threw: process.exit(1) ends the
\* invocation at once, a return ends it with status 0; dir is TARGET_DIR as
\* fs.ensureDir leaves it
addFound(query, options, fault, found, dir) ==
    IF found.error
    THEN target' = target /\ addEnd(query, options, fault, found, "", 1, "error", <<>>)
    ELSE IF Len(found.matches) = 0
    THEN target' = target /\ addEnd(query, options, fault, found, "", 1, "not found", <<>>)
    ELSE IF Len(found.matches) > 1
    THEN target' = target
         /\ addEnd(query, options, fault, found, "", 1, "multiple", found.matches)
    ELSE IF ensureDirFails(fault)
    THEN target' = target
         /\ addEnd(query, options, fault, found, found.matches[1], 1, "error", <<>>)
    ELSE IF targetPathExists(dir, found.matches[1])
    THEN target' = dir
         /\ addEnd(query, options, fault, found, found.matches[1], 0, "already exists",
                   <<found.matches[1]>>)
    ELSE copy(query, options, fault, found, dir,
              Lookup(PackageDir, sourcePath(found.lang, found.matches[1])))

\* lib/commands/add.js: add(query, options)
add(query, options, fault) ==
    /\ bundle' = bundle
    /\ running' = running
    /\ addFound(query, options, fault,
                findGuide(query, IF options.lang = "" THEN "en" ELSE options.lang, fault),
                ensureDir)

\* String.prototype.replace with a string pattern: the first occurrence only
replaceAt(s, i, pat, rep) ==
    IF i = 0 THEN s
    ELSE SubSeq(s, 1, i - 1) \o rep \o SubSeq(s, i + Len(pat), Len(s))

replace(s, pat, rep) == replaceAt(s, indexOf(s, pat), pat, rep)

\* path.basename(p, ext) of a name without directories
basename(p, ext) ==
    IF endsWith(p, ext) THEN SubSeq(p, 1, Len(p) - Len(ext)) ELSE p

\* the fixed head of the manifest (the command is set in backquotes in the
\* source, in single quotes here)
Header ==
    "# Agent Guidance\n\n"
    \o "This directory contains guidance documentation for your agent.\n"
    \o "Use the 'agent-guidance add <query>' command to add more guides.\n\n"
    \o "## Available Guides\n\n"

\* the display name of a guide
displayName(guide) == replace(basename(guide, ".md"), "_guide_en", "")

\* the bullet lines of the guides, in order (guides.forEach)
RECURSIVE Bullets(_)
Bullets(guides) ==
    IF guides = <<>> THEN ""
    ELSE "- **" \o displayName(Head(guides)) \o "**: " \o Head(guides) \o "\n"
         \o Bullets(Tail(guides))

\* a slip: the loop over the guides stops after the first
manifest_firstOnly(guides) ==
    IF Len(guides) = 0 THEN Header \o "No guides found in the bundled library.\n"
    ELSE Header \o Bullets(<<guides[1]>>)

\* the text of the manifest
manifest(guides) ==
    IF Len(guides) = 0 THEN Header \o "No guides found in the bundled library.\n"
    ELSE Header \o Bullets(guides)

\* the end of an invocation of init
initEnd(fault, guides, exit, msg) ==
    last' = Outcome("init", "", "", fault,
                    [error |-> guides.error, files |-> guides.files,
                     matches |-> <<>>, lang |-> "en"],
                    "", exit, msg, <<>>)

\* a slip: the manifest is opened for appending (flag "a"), the new text
\* follows what the file held
initListed_appends(fault, guides, dir) ==
    IF guides.error
    THEN target' = dir /\ initEnd(fault, guides, 1, "error")
    ELSE IF fault = "open" \/ TargetChild(dir, "guidance_list.md").kind = "dir"
    THEN target' = dir /\ initEnd(fault, guides, 1, "error")
    ELSE IF fault = "write"
    THEN /\ target' = WithEntry(dir, "guidance_list.md",
                                File(TargetChild(dir, "guidance_list.md").content))
         /\ initEnd(fault, guides, 1, "error")
    ELSE /\ target' = WithEntry(dir, "guidance_list.md",
                                File(TargetChild(dir, "guidance_list.md").content
                                     \o manifest(guides.files)))
         /\ initEnd(fault, guides, 0, "initialized")

\* init after fs.ensureDir; dir is TARGET_DIR as fs.ensureDir leaves it,
\* guides what getAvailableGuides('en') returned or threw.  A failing
\* fs.writeFile either opens nothing (fault = "open", or a directory is in
\* the place of the manifest) or stops after it truncated the file
\* (fault = "write")
initListed(fault, guides, dir) ==
    IF guides.error
    THEN target' = dir /\ initEnd(fault, guides, 1, "error")
    ELSE IF fault = "open" \/ TargetChild(dir, "guidance_list.md").kind = "dir"
    THEN target' = dir /\ initEnd(fault, guides, 1, "error")
    ELSE IF fault = "write"
    THEN /\ target' = WithEntry(dir, "guidance_list.md", File(""))
         /\ initEnd(fault, guides, 1, "error")
    ELSE /\ target' = WithEntry(dir, "guidance_list.md", File(manifest(guides.files)))
         /\ initEnd(fault, guides, 0, "initialized")

\* a slip: the catch prints the error and returns, without process.exit(1)
init_catchReturns(fault) ==
    /\ bundle' = bundle
    /\ running' = running
    /\ IF ensureDirFails(fault)
       THEN /\ target' = target
            /\ initEnd(fault, [error |-> FALSE, files |-> <<>>], 0, "error")
       ELSE initListed(fault, getAvailableGuides("en", fault), ensureDir)

\* a slip: the guides are listed before the output directory is ensured,
\* as add does
init_listsFirst(fault) ==
    /\ bundle' = bundle
    /\ running' = running
    /\ IF getAvailableGuides("en", fault).error
       THEN /\ target' = target
            /\ initEnd(fault, getAvailableGuides("en", fault), 1, "error")
       ELSE IF ensureDirFails(fault)
       THEN /\ target' = target
            /\ initEnd(fault, [error |-> FALSE, files |-> <<>>], 1, "error")
       ELSE initListed(fault, getAvailableGuides("en", fault), ensureDir)

\* lib/commands/init.js: init()
init(fault) ==
    /\ bundle' = bundle
    /\ running' = running
    /\ IF ensureDirFails(fault)
       THEN /\ target' = target
            /\ initEnd(fault, [error |-> FALSE, files |-> <<>>], 1, "error")
       ELSE initListed(fault, getAvailableGuides("en", fault), ensureDir)

----------------------------------------------------------------------------
(* Bundles, inputs and the specifications.                                 *)

\* a bundled file of a language collection; its content names where it
\* came from
Guide(lang, name) == Entry(name, File(lang \o ":" \o name))

\* the collection of a language: a directory with these files, in order
Collection(lang, names) ==
    Entry(lang, Dir([i \in 1..Len(names) |-> Guide(lang, names[i])]))

\* the bundles the commands run on: none, the ambiguous pair of the
\* specification, one file name in two languages, and the one-guide bundle
Bundles ==
    { Dir(<<>>),
      Dir(<<Collection("en", <<"vercel_guide_en.md", "vercel_v2_guide_en.md", "notes.txt">>)>>),
      Dir(<<Collection("en", <<"vercel_guide_en.md">>),
            Collection("zh", <<"vercel_guide_en.md", "vercel_guide_zh.md">>)>>),
      Dir(<<Collection("en", <<"supabase_guide_en.md">>)>>) }

\* the output directory before the first invocation: absent, empty, or
\* holding a file the user put there under the name of a guide
Targets ==
    { Absent, Dir(<<>>), WithEntry(Dir(<<>>), "vercel_guide_en.md", File("user")) }

Queries == {"", "vercel", "vercel_guide_en", "vercel_v2", "supa", "Vercel"}

Langs == {"", "en", "zh", "fr", "..", "en/vercel_guide_en.md"}

AddFaults == {"none", "readdir", "ensureDir", "copy"}

InitFaults == {"none", "readdir", "ensureDir", "open", "write"}

Init ==
    /\ bundle \in Bundles
    /\ target \in Targets
    /\ last = NoInvocation
    /\ running = <<>>

\* every invocation is a process of its own: the next one starts with no
\* record of the one before
prompt ==
    /\ last.cmd # "none"
    /\ last' = NoInvocation
    /\ UNCHANGED <<bundle, target, running>>

\* the command that just ended, invoked again with the same arguments
again ==
    \/ /\ last.cmd = "add"
       /\ \E fault \in AddFaults : add(last.query, [lang |-> last.lang], fault)
    \/ /\ last.cmd = "init"
       /\ \E fault \in InitFaults : init(fault)

\* the query of the add that just ended, added under a language code of
\* its own (add supa, then add supa --lang fr)
againLang ==
    /\ last.cmd = "add"
    /\ \E lang \in Langs, fault \in AddFaults : add(last.query, [lang |-> lang], fault)

Next ==
    \/ /\ last.cmd = "none"
       /\ \E query \in Queries, lang \in Langs, fault \in AddFaults :
              add(query, [lang |-> lang], fault)
    \/ /\ last.cmd = "none"
       /\ \E fault \in InitFaults : init(fault)
    \/ again
    \/ againLang
    \/ prompt

Spec == Init /\ [][Next]_vars

----------------------------------------------------------------------------
(* The resolver on its own: every bundle of up to MaxFiles files per       *)
(* collection, and one call of getAvailableGuides or findGuide.            *)

MaxFiles == 2

NamePool ==
    {"vercel_guide_en.md", "vercel_v2_guide_en.md", "vercel_guide_zh.md", "vercel_md"}

\* the listings of up to n distinct names of a pool
Listings(pool, n) ==
    UNION {{l \in [1..k -> pool] : \A i, j \in 1..k : l[i] = l[j] => i = j} : k \in 0..n}

\* the bundles with the collections en and zh, each absent or any listing
ResolverBundles ==
    LET some(lang) == {<<Collection(lang, l)>> : l \in Listings(NamePool, MaxFiles)} \cup {<<>>}
    IN  {Dir(e \o z) : e \in some("en"), z \in some("zh")}

ResolverQueries ==
    {"", "vercel", "vercel_guide", "vercel_v2", "vercel_guide_zh.md", "supa", "Vercel", ".md",
     "vercel_guide_en.md", "vercel_v2_guide_en.md"}

ResolverLangs == {"", "en", "zh", "fr", "en/", "..", "en/vercel_guide_en.md"}

ResolverFaults == {"none", "readdir"}

InitResolver ==
    /\ bundle \in ResolverBundles
    /\ target = Absent
    /\ last = NoInvocation
    /\ running = <<>>

\* what a call returned, or that it threw; a result is completed with the
\* field it does not have
returned(fn, query, lang, fault, g, none, nolang) ==
    Outcome(fn, query, lang, fault,
            [error   |-> g.error,
             files   |-> IF fn = "getAvailableGuides" THEN g.files ELSE none,
             matches |-> IF fn = "findGuide" THEN g.matches ELSE none,
             lang    |-> IF fn = "findGuide" THEN g.lang ELSE nolang],
            "", 0, "none", <<>>)

\* one call of getAvailableGuides
callGetAvailableGuides(lang, fault) ==
    /\ last.cmd = "none"
    /\ last' = returned("getAvailableGuides", "", lang, fault,
                        getAvailableGuides(lang, fault), <<>>, "")
    /\ UNCHANGED <<bundle, target, running>>

\* one call of findGuide
callFindGuide(query, lang, fault) ==
    /\ last.cmd = "none"
    /\ last' = returned("findGuide", query, lang, fault,
                        findGuide(query, lang, fault), <<>>, "")
    /\ UNCHANGED <<bundle, target, running>>

NextResolver ==
    \/ \E lang \in ResolverLangs, fault \in ResolverFaults :
           callGetAvailableGuides(lang, fault)
    \/ \E query \in ResolverQueries, lang \in ResolverLangs, fault \in ResolverFaults :
           callFindGuide(query, lang, fault)

SpecResolver == InitResolver /\ [][NextResolver]_vars

----------------------------------------------------------------------------
(* The shipped bundle: add with the slug of a technology as the query.     *)

\* the technologies of the files shipped in .agent/en
ShippedSlugs == {"better_auth", "creem", "openai", "railway", "vercel"}

\* .agent as shipped: the one collection en, one guide per technology
ShippedBundle ==
    Dir(<<Collection("en", <<"better_auth_guide_en.md", "creem_guide_en.md",
                             "openai_guide_en.md", "railway_guide_en.md",
                             "vercel_guide_en.md">>)>>)

InitShipped ==
    /\ bundle = ShippedBundle
    /\ target \in Targets
    /\ last = NoInvocation
    /\ running = <<>>

\* add <slug> [--lang <code>], one invocation after the other
NextShipped ==
    \E slug \in ShippedSlugs, lang \in Langs, fault \in AddFaults :
        add(slug, [lang |-> lang], fault)

SpecShipped == InitShipped /\ [][NextShipped]_vars

----------------------------------------------------------------------------
(* The manifest on its own: init on every collection en of up to MaxFiles  *)
(* guides named <slug>_guide_en.md, the slug of some holding the marker.   *)

ManifestNames ==
    {"vercel_guide_en.md", "better_auth_guide_en.md",
     "my_guide_en_v2_guide_en.md", "_guide_en_guide_en.md"}

ManifestBundles == {Dir(<<Collection("en", l)>>) : l \in Listings(ManifestNames, MaxFiles)}

InitManifest ==
    /\ bundle \in ManifestBundles
    /\ target \in Targets
    /\ last = NoInvocation
    /\ running = <<>>

\* agent-guidance init, one invocation after the other
NextManifest == \E fault \in InitFaults : init(fault)

SpecManifest == InitManifest /\ [][NextManifest]_vars

----------------------------------------------------------------------------
(* Two invocations of add side by side on one output directory.  Each is  *)
(* a process of its own and yields at every await of lib/commands/add.js;  *)
(* fs.copy of a file is itself a sequence of calls: it looks whether the   *)
(* destination exists, unlinks it if so (overwrite is the default), copies *)
(* the file (fs.copyFile) and sets the mode of the destination (fs.chmod). *)

Procs == {1, 2}

RaceQueries == {"vercel", "vercel_v2", "supa"}

RaceLangs == {"en", "fr"}

\* an invocation in progress: the await it has reached, its arguments, the
\* guide it resolved, whether fs.copy saw the destination, and how it ended
Proc(pc, query, lang, guideFile, foundLang, seen, exit, msg) ==
    [pc |-> pc, query |-> query, lang |-> lang, guideFile |-> guideFile,
     foundLang |-> foundLang, seen |-> seen, exit |-> exit, msg |-> msg]

InitRace ==
    /\ bundle \in Bundles
    /\ target \in Targets
    /\ last = NoInvocation
    /\ running = [p \in Procs |-> Proc("start", "", "", "", "", FALSE, 0, "none")]

\* the process p goes on to the await pc
at(p, pc) == running' = [running EXCEPT ![p].pc = pc]

\* the process p ends: a return (status 0) or process.exit(1)
ended(p, exit, msg) ==
    running' = [running EXCEPT ![p].pc = "done", ![p].exit = exit, ![p].msg = msg]

\* the output directory without the name n
WithoutEntry(d, n) == Dir([m \in DOMAIN d.entries \ {n} |-> d.entries[m]])

\* what findGuide returned to the process p: the checks of the matches
resolved(p, query, options, found) ==
    running' = [running EXCEPT ![p] =
        IF found.error THEN Proc("done", query, options.lang, "", found.lang, FALSE, 1, "error")
        ELSE IF Len(found.matches) = 0
        THEN Proc("done", query, options.lang, "", found.lang, FALSE, 1, "not found")
        ELSE IF Len(found.matches) > 1
        THEN Proc("done", query, options.lang, "", found.lang, FALSE, 1, "multiple")
        ELSE Proc("ensureDir", query, options.lang, found.matches[1], found.lang,
                  FALSE, 0, "none")]

\* add up to fs.ensureDir: the bundle is only read, and never written
addResolve(p, query, options) ==
    /\ running[p].pc = "start"
    /\ resolved(p, query, options,
                findGuide(query, IF options.lang = "" THEN "en" ELSE options.lang, "none"))
    /\ UNCHANGED <<bundle, target, last>>

\* await fs.ensureDir(TARGET_DIR)
addEnsureDir(p) ==
    /\ running[p].pc = "ensureDir"
    /\ IF ensureDirFails("none")
       THEN target' = target /\ ended(p, 1, "error")
       ELSE target' = ensureDir /\ at(p, "pathExists")
    /\ UNCHANGED <<bundle, last>>

\* await fs.pathExists(targetPath)
addPathExists(p) ==
    /\ running[p].pc = "pathExists"
    /\ IF targetPathExists(target, running[p].guideFile)
       THEN ended(p, 0, "already exists")
       ELSE at(p, "copy")
    /\ UNCHANGED <<bundle, target, last>>

\* fs.copy, first part: the source and the destination are looked at
copyStat(p) ==
    /\ running[p].pc = "copy"
    /\ IF Lookup(PackageDir, sourcePath(running[p].foundLang, running[p].guideFile)).kind
              = "absent"
       THEN ended(p, 1, "error")
       ELSE running' = [running EXCEPT
                ![p].seen = targetPathExists(target, running[p].guideFile),
                ![p].pc = IF targetPathExists(target, running[p].guideFile)
                          THEN "unlink" ELSE "copyFile"]
    /\ UNCHANGED <<bundle, target, last>>

\* fs.copy, the destination was seen: fs.unlink(dest), which throws ENOENT
\* when the destination is gone
copyUnlink(p) ==
    /\ running[p].pc = "unlink"
    /\ IF targetPathExists(target, running[p].guideFile)
       THEN target' = WithoutEntry(target, running[p].guideFile) /\ at(p, "copyFile")
       ELSE target' = target /\ ended(p, 1, "error")
    /\ UNCHANGED <<bundle, last>>

\* fs.copy: fs.copyFile(src, dest) creates the destination or replaces its
\* content
copyFile(p) ==
    /\ running[p].pc = "copyFile"
    /\ target' = WithEntry(target, running[p].guideFile,
                           Lookup(PackageDir,
                                  sourcePath(running[p].foundLang, running[p].guideFile)))
    /\ at(p, "chmod")
    /\ UNCHANGED <<bundle, last>>

\* fs.copy, last part: fs.chmod(dest, mode of the source), which throws
\* ENOENT when the destination is gone; then the success message
copyChmod(p) ==
    /\ running[p].pc = "chmod"
    /\ IF targetPathExists(target, running[p].guideFile)
       THEN ended(p, 0, "added")
       ELSE ended(p, 1, "error")
    /\ UNCHANGED <<bundle, target, last>>

NextRace ==
    \E p \in Procs :
        \/ \E query \in RaceQueries, lang \in RaceLangs : addResolve(p, query, [lang |-> lang])
        \/ addEnsureDir(p)
        \/ addPathExists(p)
        \/ copyStat(p)
        \/ copyUnlink(p)
        \/ copyFile(p)
        \/ copyChmod(p)

SpecRace == InitRace /\ [][NextRace]_vars

----------------------------------------------------------------------------
(* What the claims speak of, stated apart from the operators above.        *)

\* g is q followed by something
HasPrefix(g, q) == \E k \in 0..Len(g) : g = q \o SubSeq(g, k + 1, Len(g))

\* f is something followed by s
HasSuffix(f, s) == \E k \in 0..Len(f) : f = SubSeq(f, 1, k) \o s

\* the node the language code R names below the bundle root
CollectionOf(R) == Lookup(PackageDir, join(AGENT_DIR, R))

\* the node named F in the collection of R
BundleFile(R, F) == Child(CollectionOf(R), F)

\* the guides of the collection of R that start with Q
MatchingGuides(R, Q) ==
    {n \in {CollectionOf(R).entries[i].name : i \in 1..Len(CollectionOf(R).entries)} :
        HasSuffix(n, ".md") /\ HasPrefix(n, Q)}

\* the step is an invocation of add that resolved the query to one guide
AddResolvesOne == last'.cmd = "add" /\ ~last'.error /\ Len(last'.matches) = 1

----------------------------------------------------------------------------
(* C1: when add resolves the query to one guide file F of the resolved     *)
(* language R, nothing exists at TARGET_DIR/F and no file-system error     *)
(* occurs, then the output directory exists afterwards, TARGET_DIR/F is    *)
(* the bundle file R/F, and add ends with status 0 reporting the copy.     *)
C1_AddCopiesGuide ==
    [][(/\ AddResolvesOne
        /\ last'.fault = "none"
        /\ TargetChild(target, last'.matches[1]).kind = "absent")
       => (/\ target'.kind = "dir"
           /\ BundleFile(last'.foundLang, last'.matches[1]).kind = "file"
           /\ TargetChild(target', last'.matches[1])
                  = BundleFile(last'.foundLang, last'.matches[1])
           /\ last'.exit = 0
           /\ last'.msg = "added")]_vars

\* add copied a guide found by the fallback into a directory it created
C1_Witness ==
    /\ last.cmd = "add" /\ last.msg = "added" /\ last.exit = 0
    /\ last.lang = "fr" /\ last.foundLang = "en"
    /\ DOMAIN target.entries = {last.guideFile}
    /\ TargetChild(target, last.guideFile).kind = "file"

(* C2: when add resolves the query to one guide file F and something       *)
(* exists at TARGET_DIR/F, add reports "already exists", ends with status  *)
(* 0 and leaves the output directory, the content of F included, as it was.*)
C2_AddNeverOverwrites ==
    [][(/\ AddResolvesOne
        /\ last'.fault = "none"
        /\ TargetChild(target, last'.matches[1]).kind # "absent")
       => (/\ last'.msg = "already exists"
           /\ last'.exit = 0
           /\ target' = target)]_vars

\* add found the destination taken by a file that differs from the source
C2_Witness ==
    /\ last.cmd = "add" /\ last.msg = "already exists" /\ last.exit = 0
    /\ TargetChild(target, last.guideFile).kind = "file"
    /\ TargetChild(target, last.guideFile) # BundleFile(last.foundLang, last.guideFile)

\* the step invokes add again with the arguments of the add that just ended
\* with status 0, and no file-system error occurs
AddTwice ==
    /\ last.cmd = "add" /\ last.exit = 0
    /\ last'.cmd = "add" /\ last'.query = last.query /\ last'.lang = last.lang
    /\ last'.fault = "none"

(* C3, as claimed: after add is invoked twice in a row with the same query *)
(* and language, the guide file is in the output directory with the        *)
(* content of the bundle source, and the second invocation reports         *)
(* "already exists" with status 0.                                         *)
C3_AsClaimed ==
    [][AddTwice
       => (/\ last'.msg = "already exists"
           /\ last'.exit = 0
           /\ TargetChild(target', last'.guideFile)
                  = BundleFile(last'.foundLang, last'.guideFile))]_vars

(* C3, amended: after add is invoked twice in a row with the same query    *)
(* and language, the second invocation reports "already exists" with       *)
(* status 0 and changes nothing, the guide file is in the output           *)
(* directory, and its content is that of the bundle source when the first  *)
(* invocation copied it.                                                   *)
C3_AddIdempotent ==
    [][AddTwice
       => (/\ last'.msg = "already exists"
           /\ last'.exit = 0
           /\ target' = target
           /\ last'.guideFile = last.guideFile
           /\ TargetChild(target', last'.guideFile).kind # "absent"
           /\ (last.msg = "added"
                  => TargetChild(target', last'.guideFile)
                        = BundleFile(last'.foundLang, last'.guideFile)))]_vars

\* the second of two equal invocations of add, after the first copied
C3_Witness ==
    /\ last.cmd = "add" /\ last.msg = "already exists" /\ last.exit = 0
    /\ DOMAIN target.entries = {last.guideFile}
    /\ TargetChild(target, last.guideFile) = BundleFile(last.foundLang, last.guideFile)

(* C4: when the resolver returns no match to add (after the fallback, if   *)
(* any), add reports "not found", ends with status 1 and leaves the output *)
(* directory as it was: not created, nothing copied.                       *)
C4_NotFoundNoEffect ==
    [][(last'.cmd = "add" /\ ~last'.error /\ Len(last'.matches) = 0)
       => (/\ last'.msg = "not found"
           /\ last'.exit = 1
           /\ MatchingGuides(last'.foundLang, last'.query) = {}
           /\ target' = target)]_vars

\* add found nothing after the fallback and the output directory is still
\* absent
C4_Witness ==
    /\ last.cmd = "add" /\ last.msg = "not found" /\ last.exit = 1
    /\ last.lang = "zh" /\ last.foundLang = "en"
    /\ target = Absent

(* C5: when the resolver returns more than one match to add, add reports   *)
(* "multiple matches" naming every matching guide of the resolved          *)
(* collection, ends with status 1 and leaves the output directory as it    *)
(* was: not created, nothing copied.                                       *)
C5_AmbiguousNoEffect ==
    [][(last'.cmd = "add" /\ ~last'.error /\ Len(last'.matches) > 1)
       => (/\ last'.msg = "multiple"
           /\ last'.exit = 1
           /\ {last'.out[i] : i \in 1..Len(last'.out)}
                  = MatchingGuides(last'.foundLang, last'.query)
           /\ Len(last'.out) = Cardinality(MatchingGuides(last'.foundLang, last'.query))
           /\ target' = target)]_vars

\* add vercel on the bundle with vercel_guide_en.md and vercel_v2_guide_en.md
C5_Witness ==
    /\ last.cmd = "add" /\ last.msg = "multiple" /\ last.exit = 1
    /\ last.query = "vercel"
    /\ last.out = <<"vercel_guide_en.md", "vercel_v2_guide_en.md">>
    /\ target = Absent

(* C6, as claimed: for every query Q and language L other than "en", when *)
(* no guide of the collection of L starts with Q, findGuide(Q, L) returns  *)
(* the language "en" and exactly the matches findGuide(Q, "en") returns.   *)
C6_FallbackAsClaimed ==
    (/\ last.cmd = "findGuide" /\ last.fault = "none"
     /\ last.lang # "en"
     /\ MatchingGuides(last.lang, last.query) = {})
    => (/\ ~last.error
        /\ last.foundLang = "en"
        /\ last.matches = findGuide(last.query, "en", "none").matches)

(* C7: for every non-empty query Q and language L, every file name that    *)
(* findGuide(Q, L) returns from L itself (returned language L, no          *)
(* fallback) starts with Q, case-sensitively, and ends with ".md".         *)
C7_MatchesStartWithQuery ==
    (/\ last.cmd = "findGuide" /\ ~last.error
     /\ last.query # ""
     /\ last.foundLang = last.lang)
    => \A i \in 1..Len(last.matches) :
           HasPrefix(last.matches[i], last.query) /\ HasSuffix(last.matches[i], ".md")

\* findGuide returned two guides of the requested collection zh
C7_Witness ==
    /\ last.cmd = "findGuide" /\ ~last.error
    /\ last.query = "vercel" /\ last.lang = "zh" /\ last.foundLang = "zh"
    /\ Len(last.matches) = 2

(* C8: for every query and language, every file name findGuide returns is  *)
(* a file of the collection of the language it returns, so the source path *)
(* AGENT_DIR/returned language/file name, which add copies from, exists.   *)
C8_ReturnedLanguageHoldsMatches ==
    (last.cmd = "findGuide" /\ ~last.error)
    => \A i \in 1..Len(last.matches) :
           /\ BundleFile(last.foundLang, last.matches[i]).kind = "file"
           /\ Lookup(PackageDir, sourcePath(last.foundLang, last.matches[i]))
                  = BundleFile(last.foundLang, last.matches[i])

\* findGuide fell back from a language without collection to a guide of en
C8_Witness ==
    /\ last.cmd = "findGuide" /\ ~last.error
    /\ last.lang = "fr" /\ last.foundLang = "en"
    /\ Len(last.matches) = 1

(* C9, as claimed: for every language L without a collection directory in  *)
(* the bundle, getAvailableGuides(L) returns the empty sequence and        *)
(* signals no error.                                                       *)
C9_NoCollectionAsClaimed ==
    (/\ last.cmd = "getAvailableGuides" /\ last.fault = "none"
     /\ CollectionOf(last.lang).kind # "dir")
    => (~last.error /\ last.files = <<>>)

\* files are the names that end with ".md", in the order of names
IsMdListing(files, names) ==
    LET md == {i \in 1..Len(names) : HasSuffix(names[i], ".md")}
    IN  /\ Len(files) = Cardinality(md)
        /\ \A i \in md : files[Cardinality({j \in md : j <= i})] = names[i]

(* C10: for every language L whose collection exists, getAvailableGuides(L)*)
(* returns, absent a file-system error, exactly the entries of the         *)
(* collection whose name ends with ".md", in listing order, none added,    *)
(* dropped or reordered, and the call modifies nothing.                    *)
C10_ListsExactlyTheMdEntries ==
    [][(/\ last'.cmd = "getAvailableGuides" /\ last'.fault = "none"
        /\ CollectionOf(last'.lang).kind = "dir")
       => (/\ bundle' = bundle
           /\ target' = target
           /\ ~last'.error
           /\ IsMdListing(last'.files,
                          [i \in 1..Len(CollectionOf(last'.lang).entries) |->
                              CollectionOf(last'.lang).entries[i].name]))]_vars

\* getAvailableGuides dropped the one entry of two that does not end with
\* ".md"
C10_Witness ==
    /\ last.cmd = "getAvailableGuides" /\ ~last.error /\ last.lang = "zh"
    /\ Len(CollectionOf("zh").entries) = 2
    /\ last.files = <<"vercel_guide_zh.md">>

\* the lines of a text: what stands between its line ends
RECURSIVE LinesOf(_)
LinesOf(s) ==
    IF \E i \in 1..Len(s) : SubSeq(s, i, i) = "\n"
    THEN LET i == CHOOSE i \in 1..Len(s) :
                      /\ SubSeq(s, i, i) = "\n"
                      /\ \A j \in 1..(i - 1) : SubSeq(s, j, j) # "\n"
         IN  <<SubSeq(s, 1, i - 1)>> \o LinesOf(SubSeq(s, i + 1, Len(s)))
    ELSE <<s>>

\* the guides of the collection of R: its names that end with ".md", in
\* listing order
MdNames(R) ==
    SelectSeq([i \in 1..Len(CollectionOf(R).entries) |-> CollectionOf(R).entries[i].name],
              LAMBDA n : HasSuffix(n, ".md"))

\* the node at TARGET_DIR/guidance_list.md in an output directory
ManifestIn(d) == TargetChild(d, "guidance_list.md")

\* what follows the head in the text of a manifest
BodyOf(text) == SubSeq(text, Len(Header) + 1, Len(text))

(* C11: after init ended with status 0, guidance_list.md is a file that    *)
(* starts with the fixed head; when the collection en has guides, the head *)
(* is followed by one line per guide, in listing order, the line of a      *)
(* guide being "- **display name**: file name", and by nothing else; when  *)
(* it has none, the head is followed by the note that no guides were       *)
(* found.  Absent a file-system error, init on a bundle without guides     *)
(* ends with status 0.                                                     *)
C11_ManifestListsGuides ==
    [][/\ (last'.cmd = "init" /\ last'.exit = 0)
          => (/\ ManifestIn(target').kind = "file"
              /\ HasPrefix(ManifestIn(target').content, Header)
              /\ IF MdNames("en") = <<>>
                 THEN BodyOf(ManifestIn(target').content)
                          = "No guides found in the bundled library.\n"
                 ELSE LinesOf(BodyOf(ManifestIn(target').content))
                          = [i \in 1..(Len(MdNames("en")) + 1) |->
                                IF i > Len(MdNames("en")) THEN ""
                                ELSE "- **" \o displayName(MdNames("en")[i])
                                     \o "**: " \o MdNames("en")[i]])
       /\ (last'.cmd = "init" /\ last'.fault = "none" /\ MdNames("en") = <<>>)
          => last'.exit = 0]_vars

\* init listed the two guides of a collection that holds a third file
C11_Witness ==
    /\ last.cmd = "init" /\ last.exit = 0
    /\ Len(CollectionOf("en").entries) = 3
    /\ Len(LinesOf(BodyOf(ManifestIn(target).content))) = 3
    /\ LinesOf(BodyOf(ManifestIn(target).content))[2]
           = "- **vercel_v2**: vercel_v2_guide_en.md"

(* C12: the manifest init writes with status 0 is made from the guides of  *)
(* the collection en alone, whatever the output directory held and         *)
(* whatever other collections the bundle has: it is the manifest an        *)
(* earlier init wrote completely, if there is one, adds in between or not, *)
(* and it is the one the init just before wrote.                           *)
C12_ManifestRegenerated ==
    [][(last'.cmd = "init" /\ last'.exit = 0)
       => (/\ ManifestIn(target') = File(manifest(MdNames("en")))
           /\ (last.cmd = "init" /\ last.exit = 0)
                 => ManifestIn(target') = ManifestIn(target)
           /\ (/\ ManifestIn(target).kind = "file"
               /\ HasPrefix(ManifestIn(target).content, Header))
                 => ManifestIn(target') = ManifestIn(target))]_vars

\* init wrote the manifest of en beside a guide that add copied from zh
C12_Witness ==
    /\ last.cmd = "init" /\ last.exit = 0
    /\ CollectionOf("zh").kind = "dir"
    /\ TargetChild(target, "vercel_guide_en.md") = BundleFile("zh", "vercel_guide_en.md")
    /\ LinesOf(BodyOf(ManifestIn(target).content)) = <<"- **vercel**: vercel_guide_en.md", "">>

(* C13: init touches no name of the output directory but guidance_list.md: *)
(* every other entry, the guides add copied among them, is there after     *)
(* init as it was before, no entry is added beside the manifest, and after *)
(* status 0 the manifest is a file.                                        *)
C13_InitTouchesOnlyManifest ==
    [][last'.cmd = "init"
       => (/\ \A n \in DOMAIN target.entries \ {"guidance_list.md"} :
                  TargetChild(target', n) = target.entries[n]
           /\ target'.kind = "dir"
                 => DOMAIN target'.entries \subseteq
                        DOMAIN target.entries \cup {"guidance_list.md"}
           /\ last'.exit = 0 => ManifestIn(target').kind = "file")]_vars

\* init wrote the manifest beside the guide that add copied before
C13_Witness ==
    /\ last.cmd = "init" /\ last.exit = 0
    /\ ManifestIn(target).kind = "file"
    /\ BundleFile("en", "supabase_guide_en.md").kind = "file"
    /\ TargetChild(target, "supabase_guide_en.md") = BundleFile("en", "supabase_guide_en.md")

\* the names of the output directory whose node differs between d and e
ChangedNames(d, e) ==
    {n \in DOMAIN d.entries \cup DOMAIN e.entries : TargetChild(d, n) # TargetChild(e, n)}

(* C14: every invocation of add, whatever the query, the language code and *)
(* the way it ends, changes at most one name of the output directory, and  *)
(* that name held nothing before and holds a file after; none is removed   *)
(* or modified; and the bundle is after add as it was before.              *)
C14_AddCreatesAtMostOneFile ==
    [][last'.cmd = "add"
       => (/\ bundle' = bundle
           /\ Cardinality(ChangedNames(target, target')) <= 1
           /\ \A n \in ChangedNames(target, target') :
                  /\ TargetChild(target, n).kind = "absent"
                  /\ TargetChild(target', n).kind = "file")]_vars

\* add copied a second guide of a collection beside a file that was there
C14_Witness ==
    /\ last.cmd = "add" /\ last.msg = "added" /\ last.exit = 0
    /\ last.guideFile = "vercel_v2_guide_en.md"
    /\ TargetChild(target, "vercel_v2_guide_en.md").kind = "file"
    /\ TargetChild(target, "vercel_guide_en.md") = File("user")
    /\ BundleFile("en", "vercel_guide_en.md").kind = "file"

\* the language add resolves: the code given, "en" when none is given
AddLang(l) == IF l = "" THEN "en" ELSE l

\* the step is an invocation in which the file-system call the fault names
\* is made and fails: the listing of a collection that exists, the creation
\* of the output directory, the copy to a free destination, the write of
\* the manifest
ErrorRaised ==
    \/ /\ last'.cmd = "add" /\ last'.fault = "readdir"
       /\ \/ CollectionOf(AddLang(last'.lang)).kind # "absent"
          \/ CollectionOf("en").kind # "absent"
    \/ /\ last'.cmd = "add" /\ last'.fault = "ensureDir"
       /\ Cardinality(MatchingGuides(last'.foundLang, last'.query)) = 1
    \/ /\ last'.cmd = "add" /\ last'.fault = "copy"
       /\ Cardinality(MatchingGuides(last'.foundLang, last'.query)) = 1
       /\ \A n \in MatchingGuides(last'.foundLang, last'.query) :
              TargetChild(target, n).kind = "absent"
    \/ /\ last'.cmd = "init" /\ last'.fault = "ensureDir"
    \/ /\ last'.cmd = "init" /\ last'.fault = "readdir"
       /\ CollectionOf("en").kind # "absent"
    \/ /\ last'.cmd = "init" /\ last'.fault \in {"open", "write"}
    \/ /\ last'.cmd \in {"add", "init"} /\ last'.error

(* C15: an invocation of add or init in which a file-system call fails     *)
(* ends with status 1 and the error message, and the failed call is not    *)
(* made again: the guide is not copied, the manifest is not completed.     *)
(* init ends with status 0 only with the manifest written.                 *)
C15_ErrorsEndWithStatusOne ==
    [][/\ ErrorRaised
          => (/\ last'.exit = 1
              /\ last'.msg = "error"
              /\ \A n \in ChangedNames(target, target') :
                     n = "guidance_list.md" /\ ManifestIn(target') = File(""))
       /\ (last'.cmd = "init" /\ last'.exit = 0)
          => (/\ last'.msg = "initialized"
              /\ ManifestIn(target').kind = "file"
              /\ HasPrefix(ManifestIn(target').content, Header))]_vars

\* init ended with status 1 after the write of the manifest failed
C15_Witness ==
    /\ last.cmd = "init" /\ last.fault = "write"
    /\ last.exit = 1 /\ last.msg = "error"
    /\ Len(last.files) = 2
    /\ ManifestIn(target) = File("")

(* C16: absent a file-system error, findGuide with the empty language code *)
(* returns, for every query, the matches and the language that findGuide   *)
(* with "en" returns; and add invoked without a language code, or with the *)
(* empty one, resolves the query to the matches of "en" and ends as the    *)
(* resolution of "en" makes it end.                                        *)
C16_LanguageDefaultsToEn ==
    [][(last'.cmd = "add" /\ last'.lang = "" /\ last'.fault = "none")
       => (/\ \A q \in Queries \cup ResolverQueries :
                  findGuide(q, "", "none") = findGuide(q, "en", "none")
           /\ ~last'.error
           /\ last'.foundLang = "en"
           /\ {last'.matches[i] : i \in 1..Len(last'.matches)}
                  = MatchingGuides("en", last'.query)
           /\ Len(last'.matches) = Cardinality(MatchingGuides("en", last'.query))
           /\ last'.msg = IF Len(last'.matches) = 0 THEN "not found"
                          ELSE IF Len(last'.matches) > 1 THEN "multiple"
                          ELSE IF TargetChild(target, last'.matches[1]).kind = "absent"
                               THEN "added" ELSE "already exists")]_vars

\* add without a language code copied a guide of en, beside a collection zh
\* with a guide of the same name
C16_Witness ==
    /\ last.cmd = "add" /\ last.lang = "" /\ last.msg = "added"
    /\ last.foundLang = "en" /\ last.query = "vercel_guide_en"
    /\ BundleFile("zh", "vercel_guide_en.md").kind = "file"
    /\ TargetChild(target, "vercel_guide_en.md") = BundleFile("en", "vercel_guide_en.md")

\* the bundle has the one collection en, which holds the one guide G
OnlyEnWith(G) ==
    /\ Len(bundle.entries) = 1
    /\ bundle.entries[1].name = "en"
    /\ MdNames("en") = <<G>>

\* the scenario: add Q has just copied the one guide of the bundle from en,
\* and the step is add Q --lang L for a language L without collection, no
\* file-system error occurring
AddThenAddLang ==
    /\ last.cmd = "add" /\ last.msg = "added" /\ last.lang \in {"", "en"}
    /\ OnlyEnWith(last.guideFile)
    /\ TargetChild(target, last.guideFile) = BundleFile("en", last.guideFile)
    /\ last'.cmd = "add" /\ last'.query = last.query
    /\ last'.lang \notin {"", "en"}
    /\ CollectionOf(last'.lang).kind = "absent"
    /\ last'.fault = "none"

(* C17, as claimed: in the scenario, the second add falls back to en,      *)
(* copies the same file G and reports the success ("added") attributed to  *)
(* en.                                                                     *)
C17_AsClaimed ==
    [][AddThenAddLang
       => (/\ last'.foundLang = "en"
           /\ last'.guideFile = last.guideFile
           /\ last'.msg = "added"
           /\ last'.exit = 0
           /\ TargetChild(target', last.guideFile) = BundleFile("en", last.guideFile))]_vars

(* C17, amended: in the scenario, the second add falls back to en and      *)
(* resolves the query to the same file G; G being in the output directory  *)
(* since the first add, it copies nothing, reports "already exists" and    *)
(* ends with status 0, and G is still the copy of the guide of en.         *)
C17_FallbackFindsGuideCopied ==
    [][AddThenAddLang
       => (/\ last'.foundLang = "en"
           /\ last'.matches = <<last.guideFile>>
           /\ last'.guideFile = last.guideFile
           /\ last'.msg = "already exists"
           /\ last'.exit = 0
           /\ target' = target
           /\ TargetChild(target', last.guideFile) = BundleFile("en", last.guideFile))]_vars

\* add supa --lang fr found, by the fallback, the guide already copied
C17_Witness ==
    /\ last.cmd = "add" /\ last.query = "supa" /\ last.lang = "fr"
    /\ last.foundLang = "en" /\ last.msg = "already exists" /\ last.exit = 0
    /\ OnlyEnWith("supabase_guide_en.md")
    /\ DOMAIN target.entries = {"supabase_guide_en.md"}
    /\ TargetChild(target, "supabase_guide_en.md") = BundleFile("en", "supabase_guide_en.md")

(* C18: on the shipped bundle, add with the slug of a shipped technology   *)
(* as the query and the default language resolves, absent a file-system    *)
(* error, to exactly one guide, the file <slug>_guide_en.md of en; it does *)
(* not end as "not found" or "multiple", but with status 0: it copies the  *)
(* guide when the destination is free and reports "already exists"         *)
(* otherwise.                                                              *)
C18_SlugSelectsItsGuide ==
    [][(/\ last'.cmd = "add" /\ last'.fault = "none"
        /\ last'.query \in ShippedSlugs
        /\ last'.lang \in {"", "en"})
       => (/\ ~last'.error
           /\ last'.matches = <<last'.query \o "_guide_en.md">>
           /\ last'.foundLang = "en"
           /\ last'.exit = 0
           /\ last'.msg = IF TargetChild(target, last'.query \o "_guide_en.md").kind = "absent"
                          THEN "added" ELSE "already exists"
           /\ TargetChild(target', last'.query \o "_guide_en.md").kind = "file"
           /\ last'.msg = "added"
                 => TargetChild(target', last'.query \o "_guide_en.md")
                        = BundleFile("en", last'.query \o "_guide_en.md"))]_vars

\* add better_auth copied its guide, after add vercel copied another
C18_Witness ==
    /\ last.cmd = "add" /\ last.query = "better_auth" /\ last.lang = "en"
    /\ last.msg = "added" /\ last.exit = 0
    /\ Len(CollectionOf("en").entries) = 5
    /\ TargetChild(target, "better_auth_guide_en.md")
           = BundleFile("en", "better_auth_guide_en.md")
    /\ TargetChild(target, "vercel_guide_en.md") = BundleFile("en", "vercel_guide_en.md")

\* both invocations resolved the query to one guide, and to the same one
SameGuide ==
    /\ \A p \in Procs : running[p].guideFile # ""
    /\ running[1].guideFile = running[2].guideFile
    /\ running[1].foundLang = running[2].foundLang

(* C19, as claimed: when two invocations of add that resolve to the same   *)
(* guide run side by side on one output directory, then under every        *)
(* interleaving of their steps each one that has ended has ended with      *)
(* status 0, with the copy or with "already exists", and when both have    *)
(* ended the guide file is in the output directory.                        *)
C19_RaceAsClaimed ==
    SameGuide
    => (/\ \A p \in Procs :
               running[p].pc = "done"
               => (running[p].exit = 0 /\ running[p].msg \in {"added", "already exists"})
        /\ (\A p \in Procs : running[p].pc = "done")
               => TargetChild(target, running[1].guideFile).kind = "file")

(* C20: when at least one guide of the collection of the language L starts *)
(* with the query Q, findGuide(Q, L) returns, absent a file-system error,  *)
(* the language L and exactly the guides of L that start with Q, in        *)
(* listing order, whatever the collection en holds: nothing is taken from  *)
(* en.                                                                     *)
C20_RequestedLanguageFirst ==
    (/\ last.cmd = "findGuide" /\ last.fault = "none"
     /\ CollectionOf(last.lang).kind = "dir"
     /\ MatchingGuides(last.lang, last.query) # {})
    => (/\ ~last.error
        /\ last.foundLang = last.lang
        /\ last.matches = SelectSeq(MdNames(last.lang), LAMBDA n : HasPrefix(n, last.query))
        /\ \A i \in 1..Len(last.matches) :
               BundleFile(last.lang, last.matches[i]).kind = "file")

\* findGuide returned the one guide of zh for a query that two guides of en
\* match as well
C20_Witness ==
    /\ last.cmd = "findGuide" /\ last.fault = "none"
    /\ last.query = "vercel" /\ last.lang = "zh" /\ last.foundLang = "zh"
    /\ last.matches = <<"vercel_guide_zh.md">>
    /\ Cardinality(MatchingGuides("en", "vercel")) = 2

\* the guides of the collection of R that start with Q, in listing order
MatchesIn(R, Q) == SelectSeq(MdNames(R), LAMBDA n : HasPrefix(n, Q))

(* C21: a call of findGuide that returns, no file-system error occurring,  *)
(* returns the requested language or "en" and no other; for the language   *)
(* "en" it returns the matches of en paired with "en", empty or not; for   *)
(* another language it returns that language only with matches of it, and  *)
(* otherwise "en" with the matches of en, empty or not: no third           *)
(* collection is consulted.                                                *)
C21_FallbackDepthOne ==
    (last.cmd = "findGuide" /\ last.fault = "none" /\ ~last.error)
    => (/\ last.foundLang \in {last.lang, "en"}
        /\ last.lang = "en" => last.matches = MatchesIn("en", last.query)
        /\ (last.lang # "en" /\ last.foundLang = last.lang)
              => (last.matches # <<>> /\ last.matches = MatchesIn(last.lang, last.query))
        /\ (last.lang # "en" /\ MatchesIn(last.lang, last.query) = <<>>)
              => (last.foundLang = "en" /\ last.matches = MatchesIn("en", last.query)))

\* findGuide for fr returned the empty result of en, although zh holds a
\* guide that starts with the query
C21_Witness ==
    /\ last.cmd = "findGuide" /\ last.fault = "none" /\ ~last.error
    /\ last.lang = "fr" /\ last.query = "vercel_guide_zh.md"
    /\ last.foundLang = "en" /\ last.matches = <<>>
    /\ CollectionOf("en").kind = "dir"
    /\ MatchesIn("zh", "vercel_guide_zh.md") = <<"vercel_guide_zh.md">>

\* the slug of a guide of en: the file name without "_guide_en.md" at its end
SlugOf(f) == SubSeq(f, 1, Len(f) - Len("_guide_en.md"))

(* C22, as claimed: for every guide of en named <slug>_guide_en.md, the    *)
(* display name in the line init writes for it in the manifest is <slug>,  *)
(* for every slug, those that contain "_guide_en" included.                *)
C22_DisplayNameAsClaimed ==
    [][(last'.cmd = "init" /\ last'.exit = 0)
       => \A i \in 1..Len(MdNames("en")) :
              HasSuffix(MdNames("en")[i], "_guide_en.md")
              => LinesOf(BodyOf(ManifestIn(target').content))[i]
                     = "- **" \o SlugOf(MdNames("en")[i]) \o "**: " \o MdNames("en")[i]]_vars

(* C23, as claimed: in add and in init alike the output directory is       *)
(* ensured after the listing: an invocation whose listing fails leaves an  *)
(* absent output directory absent.                                         *)
C23_OrderAsClaimed ==
    [][(last'.cmd \in {"add", "init"} /\ last'.error /\ target.kind = "absent")
       => target'.kind = "absent"]_vars

(* C23, amended: add runs list, filter, ensure-directory, existence check, *)
(* copy: it leaves the output directory as it was unless the listing       *)
(* completed with one match, and copies nothing when the directory cannot  *)
(* be ensured.  init runs ensure-directory, list, write: when the          *)
(* directory cannot be ensured nothing is listed or written; when the      *)
(* listing fails the directory has been created and no manifest is         *)
(* written; the manifest written holds the guides listed.                  *)
C23_StepsInOrder ==
    [][/\ (last'.cmd = "add" /\ (last'.error \/ Len(last'.matches) # 1))
          => target' = target
       /\ (last'.cmd = "add" /\ last'.fault = "ensureDir") => target' = target
       /\ (last'.cmd = "init" /\ last'.fault = "ensureDir")
          => (target' = target /\ ~last'.error /\ last'.files = <<>>)
       /\ (last'.cmd = "init" /\ last'.error)
          => (/\ target'.kind = "dir"
              /\ ChangedNames(target, target') = {})
       /\ (last'.cmd = "init" /\ last'.exit = 0)
          => ManifestIn(target') = File(manifest(last'.files))]_vars

\* init ended on a failed listing, the output directory without manifest
\* being there
C23_Witness ==
    /\ last.cmd = "init" /\ last.fault = "readdir" /\ last.error /\ last.exit = 1
    /\ target = Dir(<<>>)
    /\ CollectionOf("en").kind = "dir"

\* what an output directory is apart from the contents of its files: its
\* kind and the names of its entries
Shape(d) == [kind |-> d.kind, names |-> DOMAIN d.entries]

\* how add ends, no file-system error occurring, as a function of the
\* matches and of the shape of the output directory
AddMessage(matches, shape) ==
    IF Len(matches) = 0 THEN "not found"
    ELSE IF Len(matches) > 1 THEN "multiple"
    ELSE IF matches[1] \in shape.names THEN "already exists" ELSE "added"

(* C24: absent a file-system error, what add and init do is a function of  *)
(* the arguments, the bundle and the shape of the output directory (the    *)
(* names in it), never of the contents of its files: findGuide returns the *)
(* matches the bundle gives; add ends as the matches and the presence of   *)
(* the destination name tell, and what it writes is the bundle file; init  *)
(* ends with status 0 and writes the manifest of the guides of en; and the *)
(* shape after the invocation is given by the shape before it.             *)
C24_OutputNeverReadBack ==
    [][/\ (last'.cmd = "add" /\ last'.fault = "none" /\ ~last'.error)
          => (/\ last'.matches = MatchesIn(last'.foundLang, last'.query)
              /\ last'.msg = AddMessage(last'.matches, Shape(target))
              /\ last'.exit = IF last'.msg \in {"added", "already exists"} THEN 0 ELSE 1
              /\ last'.msg = "added"
                    => (/\ ChangedNames(target, target') = {last'.matches[1]}
                        /\ TargetChild(target', last'.matches[1])
                               = BundleFile(last'.foundLang, last'.matches[1]))
              /\ last'.msg # "added" => target' = target)
       /\ (last'.cmd = "init" /\ last'.fault = "none" /\ ~last'.error)
          => (/\ last'.exit = 0
              /\ last'.msg = "initialized"
              /\ ChangedNames(target, target') \subseteq {"guidance_list.md"}
              /\ Shape(target') = [kind |-> "dir",
                                   names |-> Shape(target).names \cup {"guidance_list.md"}]
              /\ ManifestIn(target').content = manifest(MdNames("en")))]_vars

\* add for en found the destination taken by the guide of the same name
\* copied from zh, and ended as it does on any content
C24_Witness ==
    /\ last.cmd = "add" /\ last.lang = "en" /\ last.foundLang = "en"
    /\ last.msg = "already exists" /\ last.exit = 0
    /\ BundleFile("zh", last.guideFile).kind = "file"
    /\ TargetChild(target, last.guideFile) = BundleFile("zh", last.guideFile)

\* the language collections of the bundle: the directories at its root
CollectionNames ==
    {bundle.entries[i].name : i \in {j \in 1..Len(bundle.entries) :
                                         bundle.entries[j].node.kind = "dir"}}

\* the node is a file of some language collection, under the name n
IsBundledGuide(n, node) ==
    /\ node.kind = "file"
    /\ \E L \in CollectionNames : Child(Child(bundle, L), n) = node

(* C25, as claimed: whatever the queries and the language codes, every     *)
(* file that an invocation of add or init puts into the output directory,  *)
(* guidance_list.md apart, has the name and the content of a file of some  *)
(* language collection of the bundle; so an output directory that starts   *)
(* absent or empty never holds another file.                               *)
C25_OnlyBundledGuidesAsClaimed ==
    [][\A n \in ChangedNames(target, target') \ {"guidance_list.md"} :
           IsBundledGuide(n, TargetChild(target', n))]_vars

(* C26: no invocation of add or init, however it ends, removes the output  *)
(* directory or a name from it, or turns a file of it into something       *)
(* else; and an invocation of add, whatever its query and language, leaves *)
(* every entry that was there with the content it had.                     *)
C26_OutputOnlyGrows ==
    [][/\ target.kind = "dir" => target'.kind = "dir"
       /\ DOMAIN target.entries \subseteq DOMAIN target'.entries
       /\ \A n \in DOMAIN target.entries :
              TargetChild(target', n).kind = target.entries[n].kind
       /\ last'.cmd = "add"
             => \A n \in DOMAIN target.entries : TargetChild(target', n) = target.entries[n]]_vars

\* add copied a guide into a directory that holds the manifest and a file
\* of the user, both as they were
C26_Witness ==
    /\ last.cmd = "add" /\ last.msg = "added"
    /\ last.guideFile = "vercel_v2_guide_en.md"
    /\ HasPrefix(ManifestIn(target).content, Header)
    /\ TargetChild(target, "vercel_guide_en.md") = File("user")
    /\ TargetChild(target, "vercel_v2_guide_en.md").kind = "file"

(* C27, as claimed: whenever add, having resolved the query to the file F  *)
(* of the language R, ends with status 0, copied or "already exists", the  *)
(* content of TARGET_DIR/F is that of the bundle file R/F.                 *)
C27_ContentAsClaimed ==
    [][(AddResolvesOne /\ last'.exit = 0)
       => TargetChild(target', last'.matches[1])
              = BundleFile(last'.foundLang, last'.matches[1])]_vars

(* C27, amended: whenever add, having resolved the query to the file F of  *)
(* the language R, ends with status 0, either it copied, nothing having    *)
(* been at TARGET_DIR/F, and the content of TARGET_DIR/F is that of the    *)
(* bundle file R/F, also when another collection holds a file of the same  *)
(* name; or it reported "already exists" and TARGET_DIR/F is what it was   *)
(* before the invocation, equal to R/F only if it was so before.           *)
C27_ContentOfDestination ==
    [][(AddResolvesOne /\ last'.exit = 0)
       => (/\ last'.msg \in {"added", "already exists"}
           /\ last'.msg = "added"
                 => (/\ TargetChild(target, last'.matches[1]).kind = "absent"
                     /\ BundleFile(last'.foundLang, last'.matches[1]).kind = "file"
                     /\ TargetChild(target', last'.matches[1])
                            = BundleFile(last'.foundLang, last'.matches[1]))
           /\ last'.msg = "already exists"
                 => (/\ TargetChild(target, last'.matches[1]).kind # "absent"
                     /\ TargetChild(target', last'.matches[1])
                            = TargetChild(target, last'.matches[1])))]_vars

\* add for zh copied the guide of zh whose name en holds as well
C27_Witness ==
    /\ last.cmd = "add" /\ last.lang = "zh" /\ last.foundLang = "zh"
    /\ last.msg = "added" /\ last.guideFile = "vercel_guide_en.md"
    /\ BundleFile("en", "vercel_guide_en.md").kind = "file"
    /\ BundleFile("zh", "vercel_guide_en.md") # BundleFile("en", "vercel_guide_en.md")
    /\ TargetChild(target, "vercel_guide_en.md") = BundleFile("zh", "vercel_guide_en.md")

\* the members of a sequence
Range(f) == {f[i] : i \in 1..Len(f)}

\* the queries of the model that the query Q narrows: its prefixes
Broader(Q) == {P \in ResolverQueries : HasPrefix(Q, P)}

(* C28, as claimed: for every language L and queries Q, Q' with Q a prefix *)
(* of Q', every file name findGuide(Q', L) returns is returned by          *)
(* findGuide(Q, L) too, and both return the same language when            *)
(* findGuide(Q', L) returns a match.                                       *)
C28_NarrowingAsClaimed ==
    (last.cmd = "findGuide" /\ last.fault = "none" /\ ~last.error)
    => \A Q \in Broader(last.query) :
           /\ Range(last.matches) \subseteq Range(findGuide(Q, last.lang, "none").matches)
           /\ last.matches # <<>> => findGuide(Q, last.lang, "none").lang = last.foundLang

(* C28, amended: for every language L and queries Q, Q' with Q a prefix of *)
(* Q', the file names findGuide(Q', L) returns are guides of the           *)
(* collection it returns that start with Q; when it returns the requested  *)
(* language L (no fallback), findGuide(Q, L) returns every one of them     *)
(* and, if there is a match, the language L as well.  When findGuide(Q', L)*)
(* falls back to en, findGuide(Q, L) may return other files, of L.         *)
C28_NarrowingWithinCollection ==
    (last.cmd = "findGuide" /\ last.fault = "none" /\ ~last.error)
    => \A Q \in Broader(last.query) :
           /\ Range(last.matches) \subseteq MatchingGuides(last.foundLang, Q)
           /\ last.foundLang = last.lang
                 => (/\ ~findGuide(Q, last.lang, "none").error
                     /\ Range(last.matches)
                            \subseteq Range(findGuide(Q, last.lang, "none").matches)
                     /\ last.matches # <<>>
                           => findGuide(Q, last.lang, "none").lang = last.lang)

\* findGuide returned for zh the one guide of two that the narrower query
\* keeps
C28_Witness ==
    /\ last.cmd = "findGuide" /\ last.fault = "none" /\ ~last.error
    /\ last.query = "vercel_guide_zh.md" /\ last.lang = "zh" /\ last.foundLang = "zh"
    /\ last.matches = <<"vercel_guide_zh.md">>
    /\ Len(findGuide("vercel", "zh", "none").matches) = 2

(* C29: for every language L with a collection and every guide F of it,    *)
(* findGuide(F, L), the full file name being the query, returns, absent a  *)
(* file-system error, the one match F paired with L: not none, not         *)
(* several, and not a file of en by the fallback.                          *)
C29_FullNameSelectsGuide ==
    (/\ last.cmd = "findGuide" /\ last.fault = "none"
     /\ CollectionOf(last.lang).kind = "dir"
     /\ last.query \in Range(MdNames(last.lang)))
    => (/\ ~last.error
        /\ last.matches = <<last.query>>
        /\ last.foundLang = last.lang
        /\ BundleFile(last.lang, last.query).kind = "file")

\* findGuide selected, by its full name, the guide of zh that shares its
\* first letters with the other guide of zh and its name with a guide of en
C29_Witness ==
    /\ last.cmd = "findGuide" /\ last.fault = "none" /\ ~last.error
    /\ last.query = "vercel_guide_en.md" /\ last.lang = "zh" /\ last.foundLang = "zh"
    /\ last.matches = <<"vercel_guide_en.md">>
    /\ MdNames("zh") = <<"vercel_guide_zh.md", "vercel_guide_en.md">>
    /\ BundleFile("en", "vercel_guide_en.md").kind = "file"

\* the segments of a path, empty ones left out
Segments(p) == SelectSeq(p, LAMBDA x : x # "")

\* the path names a file of a language collection: AGENT_DIR, a directory
\* at the root of the bundle, a name in it
InsideBundle(p) ==
    /\ Len(Segments(p)) = Len(AGENT_DIR) + 2
    /\ SubSeq(Segments(p), 1, Len(AGENT_DIR)) = AGENT_DIR
    /\ Segments(p)[Len(AGENT_DIR) + 1] \in CollectionNames
    /\ Child(Child(bundle, Segments(p)[Len(AGENT_DIR) + 1]),
             Segments(p)[Len(AGENT_DIR) + 2]).kind = "file"

(* C30, as claimed: for every language code, codes with "/" or ".."        *)
(* included, the file an invocation of add copies is read from a path      *)
(* inside the bundle root, under a language collection directory.          *)
C30_SourceInsideBundleAsClaimed ==
    [][(last'.cmd = "add" /\ last'.msg = "added")
       => InsideBundle(sourcePath(last'.foundLang, last'.guideFile))]_vars

====
